---- MODULE Spec2Model ----
(***************************************************************************)
(* Model of app/backend/routes/api_keys.py: the credential probe           *)
(* (POST /api/test-api-key, test_api_key) and the credential presence      *)
(* report (GET /api/api-key-status, get_api_key_status).                   *)
(*                                                                         *)
(* Text is a sequence of one-character strings, so that concatenation,     *)
(* str.title() and "appears in" are computed character by character.       *)
(***************************************************************************)
EXTENDS Integers, Sequences, FiniteSets

\* Number of Credential Probe calls the server handles concurrently.
NumCalls == 2

Calls == 1..NumCalls

-----------------------------------------------------------------------------
\* Text helpers

\* needle occurs in hay as a contiguous run of characters
Contains(hay, needle) ==
    \E i \in 1..(Len(hay) - Len(needle) + 1) :
        SubSeq(hay, i, i + Len(needle) - 1) = needle

Lowers == <<"a","b","c","d","e","f","g","h","i","j","k","l","m","n","o","p","q","r","s","t","u","v","w","x","y","z">>
Uppers == <<"A","B","C","D","E","F","G","H","I","J","K","L","M","N","O","P","Q","R","S","T","U","V","W","X","Y","Z">>

IsLetter(ch) == \E i \in 1..26 : Lowers[i] = ch \/ Uppers[i] = ch

Upper(ch) ==
    IF \E i \in 1..26 : Lowers[i] = ch
    THEN Uppers[CHOOSE i \in 1..26 : Lowers[i] = ch]
    ELSE ch

Lower(ch) ==
    IF \E i \in 1..26 : Uppers[i] = ch
    THEN Lowers[CHOOSE i \in 1..26 : Uppers[i] = ch]
    ELSE ch

\* str.title(): the first letter of every run of letters is upper-cased,
\* every other letter is lower-cased.
Title(s) ==
    [i \in 1..Len(s) |->
        IF i = 1 \/ ~IsLetter(s[i - 1]) THEN Upper(s[i]) ELSE Lower(s[i])]

-----------------------------------------------------------------------------
\* String literals of the source

\* "openai"
OPENAI == <<"o","p","e","n","a","i">>
\* "anthropic"
ANTHROPIC == <<"a","n","t","h","r","o","p","i","c">>
\* "groq"
GROQ == <<"g","r","o","q">>
\* "deepseek"
DEEPSEEK == <<"d","e","e","p","s","e","e","k">>
\* "google"
GOOGLE == <<"g","o","o","g","l","e">>
\* "financial"
FINANCIAL == <<"f","i","n","a","n","c","i","a","l">>

\* "https://api.openai.com/v1/models"
URL_OPENAI == <<"h","t","t","p","s",":","/","/","a","p","i",".","o","p","e","n","a","i",".","c","o","m","/","v","1","/","m","o","d","e","l","s">>
\* "https://api.anthropic.com/v1/messages"
URL_ANTHROPIC == <<"h","t","t","p","s",":","/","/","a","p","i",".","a","n","t","h","r","o","p","i","c",".","c","o","m","/","v","1","/","m","e","s","s","a","g","e","s">>
\* "https://api.groq.com/openai/v1/models"
URL_GROQ == <<"h","t","t","p","s",":","/","/","a","p","i",".","g","r","o","q",".","c","o","m","/","o","p","e","n","a","i","/","v","1","/","m","o","d","e","l","s">>
\* "https://api.deepseek.com/v1/models"
URL_DEEPSEEK == <<"h","t","t","p","s",":","/","/","a","p","i",".","d","e","e","p","s","e","e","k",".","c","o","m","/","v","1","/","m","o","d","e","l","s">>
\* "https://generativelanguage.googleapis.com/v1beta/models?key="
URL_GOOGLE == <<"h","t","t","p","s",":","/","/","g","e","n","e","r","a","t","i","v","e","l","a","n","g","u","a","g","e",".","g","o","o","g","l","e","a","p","i","s",".","c","o","m","/","v","1","b","e","t","a","/","m","o","d","e","l","s","?","k","e","y","=">>
\* "https://api.financialdatasets.ai/company/facts/?ticker=AAPL"
URL_FINANCIAL == <<"h","t","t","p","s",":","/","/","a","p","i",".","f","i","n","a","n","c","i","a","l","d","a","t","a","s","e","t","s",".","a","i","/","c","o","m","p","a","n","y","/","f","a","c","t","s","/","?","t","i","c","k","e","r","=","A","A","P","L">>

\* "Bearer "
BEARER == <<"B","e","a","r","e","r"," ">>
\* "application/json"
APPLICATION_JSON == <<"a","p","p","l","i","c","a","t","i","o","n","/","j","s","o","n">>
\* "2023-06-01"
ANTHROPIC_VERSION == <<"2","0","2","3","-","0","6","-","0","1">>

\* test_data: the JSON body of the anthropic probe
test_data ==
    [model |-> "claude-3-haiku-20240307",
     max_tokens |-> 1,
     messages |-> <<[role |-> "user", content |-> "Hi"]>>]

-----------------------------------------------------------------------------
\* Requests, probes, exceptions, responses

\* TestApiKeyRequest
TestApiKeyRequest(provider, apiKey, testEndpoint) ==
    [provider |-> provider, apiKey |-> apiKey, testEndpoint |-> testEndpoint]

NoRequest == TestApiKeyRequest(<<>>, <<>>, <<>>)

\* One outbound request handed to client.get / client.post.  The body is a
\* sequence holding the JSON value when json= is passed, and empty otherwise.
Probe(method, url, headers, body) ==
    [method |-> method, url |-> url, headers |-> headers, body |-> body]

\* headers = {} : the empty mapping
NoHeaders == [h \in {} |-> <<>>]

\* An exception object: its class, str(e), and for HTTPException the
\* status_code and detail it carries.
Exc(cls, str, status, detail) ==
    [cls |-> cls, str |-> str, status |-> status, detail |-> detail]

Digits == <<"0","1","2","3","4","5","6","7","8","9">>

\* str(n) of a non-negative integer
RECURSIVE IntText(_)
IntText(n) ==
    IF n < 10 THEN <<Digits[n + 1]>>
    ELSE IntText(n \div 10) \o <<Digits[(n % 10) + 1]>>

\* fastapi.HTTPException(status_code, detail); str(e) is "<status>: <detail>"
HTTPException(status, detail) ==
    Exc("HTTPException", IntText(status) \o <<":"," ">> \o detail, status, detail)

\* Direct base class of every exception class that can reach the handlers.
Base ==
    [ReadTimeout        |-> "TimeoutException",
     TimeoutException   |-> "TransportError",
     ConnectError       |-> "TransportError",
     LocalProtocolError |-> "ProtocolError",
     ProtocolError      |-> "TransportError",
     TransportError     |-> "RequestError",
     RequestError       |-> "HTTPError",
     HTTPError          |-> "Exception",
     HTTPException      |-> "Exception",
     UnicodeEncodeError |-> "Exception",
     Exception          |-> "BaseException",
     CancelledError     |-> "BaseException"]

RECURSIVE IsSubclass(_, _)
IsSubclass(cls, base) ==
    \/ cls = base
    \/ cls /= "BaseException" /\ IsSubclass(Base[cls], base)

\* What the caller of the endpoint receives.  http = 0: nothing was sent
\* (the request was torn down before a response existed).
NoResult == [http |-> 0, body |-> [detail |-> <<>>]]

\* TestApiKeyResponse serialised by the framework with status 200
TestApiKeyResponse(success, message, details) ==
    [http |-> 200,
     body |-> [success |-> success, message |-> message, details |-> details]]

\* An HTTPException that leaves the handler is answered by the framework
\* with its status code and {"detail": detail}.
ErrorResponse(e) == [http |-> e.status, body |-> [detail |-> e.detail]]

-----------------------------------------------------------------------------
\* test_api_key

\* The providers the if/elif chain recognises (exact, case-sensitive match)
Recognized == {OPENAI, ANTHROPIC, GROQ, DEEPSEEK, GOOGLE, FINANCIAL}

\* A bug: the key is sent bare, without the "Bearer " scheme
BearerHeadersNoScheme(apiKey) ==
    [h \in {"Authorization", "Content-Type"} |->
        IF h = "Authorization" THEN apiKey ELSE APPLICATION_JSON]

\* headers of the openai, groq and deepseek probes
BearerHeaders(apiKey) ==
    [h \in {"Authorization", "Content-Type"} |->
        IF h = "Authorization" THEN BEARER \o apiKey ELSE APPLICATION_JSON]

\* headers of the anthropic probe
AnthropicHeaders(apiKey) ==
    [h \in {"x-api-key", "Content-Type", "anthropic-version"} |->
        IF h = "x-api-key" THEN apiKey
        ELSE IF h = "Content-Type" THEN APPLICATION_JSON
        ELSE ANTHROPIC_VERSION]

\* headers of the financial probe
FinancialHeaders(apiKey) == [h \in {"X-API-KEY"} |-> apiKey]

\* The call of client.get / client.post the dispatch ends with
Send(p) == [kind |-> "send", probe |-> p, exc |-> Exc("", <<>>, 0, <<>>)]

\* The raise the dispatch ends with
Raise(e) == [kind |-> "raise", probe |-> Probe("", <<>>, NoHeaders, <<>>), exc |-> e]

\* A bug: the probe goes to request.testEndpoint when one is given
DispatchToTestEndpoint(request) ==
    LET url(u) == IF request.testEndpoint /= <<>> THEN request.testEndpoint ELSE u
    IN  IF request.provider = OPENAI THEN
            Send(Probe("GET", url(URL_OPENAI), BearerHeaders(request.apiKey), <<>>))
        ELSE IF request.provider = ANTHROPIC THEN
            Send(Probe("POST", url(URL_ANTHROPIC),
                       AnthropicHeaders(request.apiKey), <<test_data>>))
        ELSE IF request.provider = GROQ THEN
            Send(Probe("GET", url(URL_GROQ), BearerHeaders(request.apiKey), <<>>))
        ELSE IF request.provider = DEEPSEEK THEN
            Send(Probe("GET", url(URL_DEEPSEEK), BearerHeaders(request.apiKey), <<>>))
        ELSE IF request.provider = GOOGLE THEN
            Send(Probe("GET", url(URL_GOOGLE \o request.apiKey), NoHeaders, <<>>))
        ELSE IF request.provider = FINANCIAL THEN
            Send(Probe("GET", url(URL_FINANCIAL),
                       FinancialHeaders(request.apiKey), <<>>))
        ELSE
            Raise(HTTPException(400, <<"U","n","s","u","p","p","o","r","t","e","d"," ","p","r","o","v","i","d","e","r",":"," ">> \o request.provider))

\* The if/elif chain on request.provider: either the one call of
\* client.get / client.post, or the raise of the else branch.
Dispatch(request) ==
    IF request.provider = OPENAI THEN
        Send(Probe("GET", URL_OPENAI, BearerHeaders(request.apiKey), <<>>))
    ELSE IF request.provider = ANTHROPIC THEN
        Send(Probe("POST", URL_ANTHROPIC,
                   AnthropicHeaders(request.apiKey), <<test_data>>))
    ELSE IF request.provider = GROQ THEN
        Send(Probe("GET", URL_GROQ, BearerHeaders(request.apiKey), <<>>))
    ELSE IF request.provider = DEEPSEEK THEN
        Send(Probe("GET", URL_DEEPSEEK, BearerHeaders(request.apiKey), <<>>))
    ELSE IF request.provider = GOOGLE THEN
        Send(Probe("GET", URL_GOOGLE \o request.apiKey, NoHeaders, <<>>))
    ELSE IF request.provider = FINANCIAL THEN
        Send(Probe("GET", URL_FINANCIAL, FinancialHeaders(request.apiKey), <<>>))
    ELSE
        Raise(HTTPException(400, <<"U","n","s","u","p","p","o","r","t","e","d"," ","p","r","o","v","i","d","e","r",":"," ">> \o request.provider))

\* A bug: every 2xx status counts as a valid key
ClassifyAny2xx(request, status_code, text) ==
    IF status_code \div 100 = 2 THEN
        TestApiKeyResponse(TRUE,
            Title(request.provider) \o <<" ","A","P","I"," ","k","e","y"," ","i","s"," ","v","a","l","i","d">>,
            [status_code |-> status_code])
    ELSE
        TestApiKeyResponse(FALSE,
            <<"A","P","I"," ","t","e","s","t"," ","f","a","i","l","e","d"," ","f","o","r"," ">> \o request.provider,
            [status_code |-> status_code, error |-> text])

\* "Check response status": the result for an upstream response
Classify(request, status_code, text) ==
    IF status_code = 200 THEN
        TestApiKeyResponse(TRUE,
            Title(request.provider) \o <<" ","A","P","I"," ","k","e","y"," ","i","s"," ","v","a","l","i","d">>,
            [status_code |-> status_code])
    ELSE IF status_code = 401 THEN
        TestApiKeyResponse(FALSE,
            <<"I","n","v","a","l","i","d"," ","A","P","I"," ","k","e","y"," ","f","o","r"," ">> \o request.provider,
            [status_code |-> status_code, error |-> <<"U","n","a","u","t","h","o","r","i","z","e","d">>])
    ELSE IF status_code = 403 THEN
        TestApiKeyResponse(FALSE,
            <<"A","P","I"," ","k","e","y"," ","l","a","c","k","s"," ","r","e","q","u","i","r","e","d"," ","p","e","r","m","i","s","s","i","o","n","s"," ","f","o","r"," ">> \o request.provider,
            [status_code |-> status_code, error |-> <<"F","o","r","b","i","d","d","e","n">>])
    ELSE
        TestApiKeyResponse(FALSE,
            <<"A","P","I"," ","t","e","s","t"," ","f","a","i","l","e","d"," ","f","o","r"," ">> \o request.provider,
            [status_code |-> status_code, error |-> text])

\* A bug: the clause for RequestError placed before the one for its
\* subclass TimeoutException
HandlersRequestErrorFirst == <<"RequestError", "TimeoutException", "Exception">>

\* The except clauses of the try statement, in source order
Handlers == <<"TimeoutException", "RequestError", "Exception">>

\* An exception e left the try body: the first clause whose class e is an
\* instance of handles it; with no such clause e leaves the handler.
ExceptClauses(request, e) ==
    LET m == {i \in 1..Len(Handlers) : IsSubclass(e.cls, Handlers[i])}
        h == IF m = {} THEN "none"
             ELSE Handlers[CHOOSE i \in m : \A j \in m : i <= j]
    IN  IF h = "TimeoutException" THEN
            TestApiKeyResponse(FALSE,
                <<"T","i","m","e","o","u","t"," ","t","e","s","t","i","n","g"," ">> \o request.provider \o <<" ","A","P","I"," ","k","e","y">>,
                [error |-> <<"R","e","q","u","e","s","t"," ","t","i","m","e","o","u","t">>])
        ELSE IF h = "RequestError" THEN
            TestApiKeyResponse(FALSE,
                <<"N","e","t","w","o","r","k"," ","e","r","r","o","r"," ","t","e","s","t","i","n","g"," ">> \o request.provider \o <<" ","A","P","I"," ","k","e","y">>,
                [error |-> e.str])
        ELSE IF h = "Exception" THEN
            ErrorResponse(HTTPException(500,
                <<"U","n","e","x","p","e","c","t","e","d"," ","e","r","r","o","r"," ","t","e","s","t","i","n","g"," ","A","P","I"," ","k","e","y",":"," ">> \o e.str))
        ELSE NoResult

\* A bug: the client is closed by a call at the end of the body, which a
\* raise skips
CloseOnReturnOnly(fr, raised) ==
    IF raised THEN fr ELSE [fr EXCEPT !.client = "closed", !.inflight = 0]

\* Leaving "async with httpx.AsyncClient(...) as client": the client is
\* closed, whether the body returned or raised (raised = TRUE), and closing
\* tears down whatever it still had in flight.
AsyncWithExit(fr, raised) == [fr EXCEPT !.client = "closed", !.inflight = 0]

\* A bug: the locals kept in one module-level record shared by all calls
SharedFrame(c) == 1

\* The activation record holding the locals of call c
Frame(c) == c

-----------------------------------------------------------------------------
\* get_api_key_status

\* The names bound at module level: the imports and the definitions
ModuleGlobals ==
    {"APIRouter", "HTTPException", "BaseModel", "httpx", "Dict", "Any",
     "asyncio", "router", "TestApiKeyRequest", "TestApiKeyResponse",
     "test_api_key", "get_api_key_status"}

\* The environment variable read for each provider of the report
EnvVar ==
    [p \in Recognized |->
        IF p = OPENAI THEN "OPENAI_API_KEY"
        ELSE IF p = ANTHROPIC THEN "ANTHROPIC_API_KEY"
        ELSE IF p = GROQ THEN "GROQ_API_KEY"
        ELSE IF p = DEEPSEEK THEN "DEEPSEEK_API_KEY"
        ELSE IF p = GOOGLE THEN "GOOGLE_API_KEY"
        ELSE "FINANCIAL_DATASETS_API_KEY"]

EnvVars == {EnvVar[p] : p \in Recognized}

\* A variable of the environment: <<>> when unset, <<value>> when set
Unset == <<>>

\* bool(os.getenv(name)): None and "" are false, any other string is true
BoolGetenv(e, name) == e[name] /= Unset /\ e[name][1] /= <<>>

NoStatus == [http |-> 0, body |-> [p \in {} |-> TRUE]]

\* The handler body.  The dict display evaluates os.getenv first, and the
\* name os is looked up among the module globals: unbound, it raises
\* NameError, which the framework answers with 500 and no report.
GetApiKeyStatus(e) ==
    IF "os" \notin ModuleGlobals THEN
        [http |-> 500, body |-> [p \in {} |-> TRUE]]
    ELSE
        [http |-> 200,
         body |-> [p \in Recognized |->
                     [configured |-> BoolGetenv(e, EnvVar[p]),
                      required |-> (p = OPENAI)]]]

-----------------------------------------------------------------------------
\* The inputs: requests of callers and outcomes of the upstream services

\* "bogus" and "OpenAI": provider strings outside the recognised set
BOGUS == <<"b","o","g","u","s">>
OPENAI_MIXED == <<"O","p","e","n","A","I">>

KEY1 == <<"s","k","-","1">>
KEY2 == <<"b","a","d">>

Providers == Recognized \cup {BOGUS, OPENAI_MIXED}
ApiKeys == {KEY1, KEY2}
Endpoints == {<<>>, <<"x">>}

Requests ==
    {TestApiKeyRequest(p, k, t) : p \in Providers, k \in ApiKeys, t \in Endpoints}

\* What the await of client.get / client.post ends with: a response
\* (status_code, text) or an exception (class, str(e)).
Response(status, text) ==
    [kind |-> "response", status |-> status, text |-> text, cls |-> ""]
Raised(cls, str) ==
    [kind |-> "raise", status |-> 0, text |-> str, cls |-> cls]
NoOutcome == [kind |-> "none", status |-> 0, text |-> <<>>, cls |-> ""]

Statuses == {200, 201, 401, 403, 500}

\* Response bodies and fault descriptions are chosen by the other side; one
\* of each quotes the key it was given.
Texts(request) == {<<>>, <<"e","r","r","o","r">>, <<"r","e","j","e","c","t","e","d"," ">> \o request.apiKey}

Outcomes(request) ==
    {Response(s, t) : s \in Statuses, t \in Texts(request)}
    \cup {Raised("ReadTimeout", <<>>)}
    \cup {Raised("ConnectError", <<"r","e","f","u","s","e","d">>),
          Raised("LocalProtocolError", <<"I","l","l","e","g","a","l"," ","h","e","a","d","e","r"," ","v","a","l","u","e"," ">> \o request.apiKey)}
    \cup {Raised("UnicodeEncodeError", <<"c","o","d","e","c">>)}

\* The smaller inputs of the concurrent specification
ConcRequests ==
    {TestApiKeyRequest(p, k, t) :
        p \in {OPENAI, ANTHROPIC, GOOGLE, BOGUS}, k \in ApiKeys, t \in Endpoints}

ConcOutcomes(request) ==
    {Response(200, <<>>), Response(500, <<"e","r","r","o","r">>), Raised("ReadTimeout", <<>>)}

EnvValues == {Unset, <<(<<>>)>>, <<<<"v">>>>}

-----------------------------------------------------------------------------
\* State

VARIABLES
    pc,         \* pc[c]: where call c is: idle, awaiting, done, aborted
    submitted,  \* submitted[c]: the request the caller of c sent
    frame,      \* frame[f]: the locals of an activation of test_api_key
    wire,       \* wire[c]: the outbound requests call c has issued, in order
    outcome,    \* outcome[c]: what the await of call c ended with
    result,     \* result[c]: what the caller of c received
    env,        \* the process environment
    statusResp  \* the last answer of GET /api/api-key-status

vars == <<pc, submitted, frame, wire, outcome, result, env, statusResp>>

NoFrame == [request |-> NoRequest, client |-> "none", inflight |-> 0]

InitCalls ==
    /\ pc = [c \in Calls |-> "idle"]
    /\ submitted = [c \in Calls |-> NoRequest]
    /\ frame = [f \in Calls |-> NoFrame]
    /\ wire = [c \in Calls |-> <<>>]
    /\ outcome = [c \in Calls |-> NoOutcome]
    /\ result = [c \in Calls |-> NoResult]
    /\ statusResp = NoStatus

Init ==
    /\ InitCalls
    /\ env = [v \in EnvVars |-> Unset]

InitStatus ==
    /\ InitCalls
    /\ env \in [EnvVars -> EnvValues]

\* POST /api/test-api-key arrives: the handler runs from its first line to
\* the await of the outbound call, or to the end if the else branch raises.
Call(c, request) ==
    LET f == Frame(c)
        d == Dispatch(request)
        opened == [request |-> request, client |-> "open", inflight |-> 0]
    IN  /\ pc[c] = "idle"
        /\ submitted' = [submitted EXCEPT ![c] = request]
        /\ IF d.kind = "send"
           THEN /\ frame' = [frame EXCEPT ![f] = [opened EXCEPT !.inflight = 1]]
                /\ wire' = [wire EXCEPT ![c] = Append(@, d.probe)]
                /\ pc' = [pc EXCEPT ![c] = "awaiting"]
                /\ UNCHANGED result
           ELSE /\ frame' = [frame EXCEPT ![f] = AsyncWithExit(opened, TRUE)]
                /\ result' = [result EXCEPT ![c] = ExceptClauses(request, d.exc)]
                /\ pc' = [pc EXCEPT ![c] = "done"]
                /\ UNCHANGED wire
        /\ UNCHANGED <<outcome, env, statusResp>>

\* A bug: after a failure the request is issued a second time
DeliverRetry(c, o) ==
    LET f == Frame(c)
        request == frame[f].request
        raised == o.kind = "raise"
        failed == raised \/ o.status /= 200
    IN  /\ pc[c] = "awaiting"
        /\ outcome' = [outcome EXCEPT ![c] = o]
        /\ IF failed /\ Len(wire[c]) < 2
           THEN /\ wire' = [wire EXCEPT ![c] = Append(@, @[1])]
                /\ UNCHANGED <<frame, result, pc>>
           ELSE /\ frame' = [frame EXCEPT ![f] =
                        AsyncWithExit([@ EXCEPT !.inflight = @ - 1], raised)]
                /\ result' = [result EXCEPT ![c] =
                        IF raised
                        THEN ExceptClauses(request, Exc(o.cls, o.text, 0, <<>>))
                        ELSE Classify(request, o.status, o.text)]
                /\ pc' = [pc EXCEPT ![c] = "done"]
                /\ UNCHANGED wire
        /\ UNCHANGED <<submitted, env, statusResp>>

\* The await of the outbound call ends with o: the handler resumes and runs
\* to its end (status check or except clause, leaving the async with).
Deliver(c, o) ==
    LET f == Frame(c)
        request == frame[f].request
        raised == o.kind = "raise"
    IN  /\ pc[c] = "awaiting"
        /\ outcome' = [outcome EXCEPT ![c] = o]
        /\ frame' = [frame EXCEPT ![f] =
                        AsyncWithExit([@ EXCEPT !.inflight = @ - 1], raised)]
        /\ result' = [result EXCEPT ![c] =
                        IF raised
                        THEN ExceptClauses(request, Exc(o.cls, o.text, 0, <<>>))
                        ELSE Classify(request, o.status, o.text)]
        /\ pc' = [pc EXCEPT ![c] = "done"]
        /\ UNCHANGED <<submitted, wire, env, statusResp>>

\* The caller goes away while the outbound call is in flight: the task is
\* cancelled, CancelledError is raised at the await.
Abort(c) ==
    LET f == Frame(c)
        request == frame[f].request
        res == ExceptClauses(request, Exc("CancelledError", <<>>, 0, <<>>))
    IN  /\ pc[c] = "awaiting"
        /\ outcome' = [outcome EXCEPT ![c] = Raised("CancelledError", <<>>)]
        /\ frame' = [frame EXCEPT ![f] = AsyncWithExit(@, TRUE)]
        /\ result' = [result EXCEPT ![c] = res]
        /\ pc' = [pc EXCEPT ![c] = IF res.http = 0 THEN "aborted" ELSE "done"]
        /\ UNCHANGED <<submitted, wire, env, statusResp>>

\* GET /api/api-key-status
get_api_key_status ==
    /\ statusResp' = GetApiKeyStatus(env)
    /\ UNCHANGED <<pc, submitted, frame, wire, outcome, result, env>>

\* One Credential Probe call, with the full range of inputs and outcomes
Next ==
    \/ \E request \in Requests : Call(1, request)
    \/ \E o \in Outcomes(submitted[1]) : Deliver(1, o)
    \/ Abort(1)

Spec == Init /\ [][Next]_vars

\* NumCalls Credential Probe calls, interleaved at their awaits
NextConc ==
    \/ \E c \in Calls, request \in ConcRequests : Call(c, request)
    \/ \E c \in Calls : \E o \in ConcOutcomes(submitted[c]) : Deliver(c, o)
    \/ \E c \in Calls : Abort(c)

SpecConc == Init /\ [][NextConc]_vars

\* The presence report under every assignment of the six variables
NextStatus == get_api_key_status

SpecStatus == InitStatus /\ [][NextStatus]_vars

-----------------------------------------------------------------------------
\* Properties

Ended(c) == pc[c] \in {"done", "aborted"}

\* The six provider strings of the interface
SixProviders ==
    {<<"o","p","e","n","a","i">>, <<"a","n","t","h","r","o","p","i","c">>, <<"g","r","o","q">>, <<"d","e","e","p","s","e","e","k">>, <<"g","o","o","g","l","e">>, <<"f","i","n","a","n","c","i","a","l">>}

\* C1 (as claimed): a call whose provider is not one of the six is answered
\* with 400 and a message holding the provider string, never 200 or 500.
C1_UnrecognizedIs400 ==
    \A c \in Calls :
        (pc[c] = "done" /\ submitted[c].provider \notin SixProviders)
            => /\ result[c].http = 400
               /\ Contains(result[c].body.detail, submitted[c].provider)

\* The provider name as the success message shows it
TitledName(p) ==
    CASE p = <<"o","p","e","n","a","i">> -> <<"O","p","e","n","a","i">>
      [] p = <<"a","n","t","h","r","o","p","i","c">> -> <<"A","n","t","h","r","o","p","i","c">>
      [] p = <<"g","r","o","q">> -> <<"G","r","o","q">>
      [] p = <<"d","e","e","p","s","e","e","k">> -> <<"D","e","e","p","s","e","e","k">>
      [] p = <<"g","o","o","g","l","e">> -> <<"G","o","o","g","l","e">>
      [] p = <<"f","i","n","a","n","c","i","a","l">> -> <<"F","i","n","a","n","c","i","a","l">>

\* The ProbeResult fixed for upstream status s, provider p, response body t
ExpectedForStatus(p, s, t) ==
    CASE s = 200 ->
            [success |-> TRUE,
             message |-> TitledName(p) \o <<" ","A","P","I"," ","k","e","y"," ","i","s"," ","v","a","l","i","d">>,
             details |-> [status_code |-> s]]
      [] s = 401 ->
            [success |-> FALSE,
             message |-> <<"I","n","v","a","l","i","d"," ","A","P","I"," ","k","e","y"," ","f","o","r"," ">> \o p,
             details |-> [status_code |-> s, error |-> <<"U","n","a","u","t","h","o","r","i","z","e","d">>]]
      [] s = 403 ->
            [success |-> FALSE,
             message |-> <<"A","P","I"," ","k","e","y"," ","l","a","c","k","s"," ","r","e","q","u","i","r","e","d"," ","p","e","r","m","i","s","s","i","o","n","s"," ","f","o","r"," ">> \o p,
             details |-> [status_code |-> s, error |-> <<"F","o","r","b","i","d","d","e","n">>]]
      [] OTHER ->
            [success |-> FALSE,
             message |-> <<"A","P","I"," ","t","e","s","t"," ","f","a","i","l","e","d"," ","f","o","r"," ">> \o p,
             details |-> [status_code |-> s, error |-> t]]

\* C2: for a recognized provider and an upstream response with status s, the
\* call answers 200 with the ProbeResult fixed by s: success iff s = 200,
\* details.status_code = s, details.error absent / "Unauthorized" /
\* "Forbidden" / the raw body, and the provider-named message of that class.
C2_ClassifiedByStatus ==
    \A c \in Calls :
        (pc[c] = "done" /\ submitted[c].provider \in SixProviders
                        /\ outcome[c].kind = "response")
            => /\ result[c].http = 200
               /\ result[c].body = ExpectedForStatus(submitted[c].provider,
                                        outcome[c].status, outcome[c].text)
               /\ result[c].body.success = (outcome[c].status = 200)
               /\ ("error" \in DOMAIN result[c].body.details)
                      = (outcome[c].status /= 200)

\* C2 witness: a 201 with a body was classified as a failure carrying the body
C2_Witness ==
    \E c \in Calls :
        /\ pc[c] = "done"
        /\ submitted[c].provider = <<"a","n","t","h","r","o","p","i","c">>
        /\ outcome[c].kind = "response" /\ outcome[c].status = 201
        /\ outcome[c].text /= <<>>
        /\ result[c].body.success = FALSE
        /\ result[c].body.details.error = outcome[c].text

\* C3: for a recognized provider, a timeout of the outbound call is answered
\* 200 with the "Timeout testing <provider> API key" result and any other
\* network fault 200 with the "Network error testing <provider> API key"
\* result carrying the fault description; neither becomes a 500.
C3_FaultsBecomeResults ==
    \A c \in Calls :
        (pc[c] = "done" /\ submitted[c].provider \in SixProviders
                        /\ outcome[c].kind = "raise")
            => /\ outcome[c].cls = "ReadTimeout" =>
                    result[c] =
                        [http |-> 200,
                         body |-> [success |-> FALSE,
                                   message |-> <<"T","i","m","e","o","u","t"," ","t","e","s","t","i","n","g"," ">>
                                       \o submitted[c].provider \o <<" ","A","P","I"," ","k","e","y">>,
                                   details |-> [error |-> <<"R","e","q","u","e","s","t"," ","t","i","m","e","o","u","t">>]]]
               /\ outcome[c].cls \in {"ConnectError", "LocalProtocolError"} =>
                    result[c] =
                        [http |-> 200,
                         body |-> [success |-> FALSE,
                                   message |-> <<"N","e","t","w","o","r","k"," ","e","r","r","o","r"," ","t","e","s","t","i","n","g"," ">>
                                       \o submitted[c].provider \o <<" ","A","P","I"," ","k","e","y">>,
                                   details |-> [error |-> outcome[c].text]]]

\* C3 witness: a call that timed out has been answered
C3_Witness ==
    \E c \in Calls :
        /\ pc[c] = "done"
        /\ submitted[c].provider = <<"g","r","o","q">>
        /\ outcome[c].cls = "ReadTimeout"
        /\ result[c].http = 200
        /\ Contains(result[c].body.message, <<"T","i","m","e","o","u","t">>)

\* C4 (as claimed): the submitted apiKey appears neither in the message nor
\* in any text of the details of a returned ProbeResult.
C4_KeyNeverInResult ==
    \A c \in Calls :
        (pc[c] = "done" /\ result[c].http = 200)
            => /\ ~Contains(result[c].body.message, submitted[c].apiKey)
               /\ "error" \in DOMAIN result[c].body.details
                    => ~Contains(result[c].body.details.error, submitted[c].apiKey)

\* C5 (as claimed): every call makes exactly one outbound request: never two,
\* and none ends having made none.
C5_ExactlyOneRequest ==
    \A c \in Calls :
        /\ Len(wire[c]) <= 1
        /\ Ended(c) => Len(wire[c]) = 1

\* C5 (amended): no call issues two or more outbound requests, so none is
\* re-issued after a failure; a call answered with a ProbeResult has issued
\* exactly one; a call with an unrecognized provider ends having issued none.
C5_AtMostOneRequest ==
    \A c \in Calls :
        /\ Len(wire[c]) <= 1
        /\ (pc[c] = "done" /\ result[c].http = 200) => Len(wire[c]) = 1
        /\ (Ended(c) /\ submitted[c].provider \notin SixProviders)
                => Len(wire[c]) = 0

\* C5 witness: a call whose outbound request timed out has ended with one
\* request issued
C5_Witness ==
    \E c \in Calls :
        /\ pc[c] = "done"
        /\ outcome[c].cls = "ReadTimeout"
        /\ Len(wire[c]) = 1

\* C6 (as claimed): the presence report answers 200 with exactly the six
\* providers, configured iff the provider's variable is set and non-empty,
\* required only for openai, and nothing else.
C6_PresenceReport ==
    statusResp /= NoStatus
        => /\ statusResp.http = 200
           /\ DOMAIN statusResp.body = SixProviders
           /\ \A p \in SixProviders :
                /\ DOMAIN statusResp.body[p] = {"configured", "required"}
                /\ statusResp.body[p].configured
                      = (env[EnvVar[p]] \notin {Unset, <<(<<>>)>>})
                /\ statusResp.body[p].required = (p = <<"o","p","e","n","a","i">>)

\* The probe of the interface table for provider p and key k; extra = TRUE
\* adds the Content-Type header to the four probes that carry it.
TableProbe(p, k, extra) ==
    LET ct == IF extra THEN {"Content-Type"} ELSE {}
        bearer == [h \in {"Authorization"} \cup ct |->
                     IF h = "Authorization" THEN <<"B","e","a","r","e","r"," ">> \o k
                     ELSE <<"a","p","p","l","i","c","a","t","i","o","n","/","j","s","o","n">>]
    IN  CASE p = <<"o","p","e","n","a","i">> -> Probe("GET", URL_OPENAI, bearer, <<>>)
          [] p = <<"g","r","o","q">> -> Probe("GET", URL_GROQ, bearer, <<>>)
          [] p = <<"d","e","e","p","s","e","e","k">> -> Probe("GET", URL_DEEPSEEK, bearer, <<>>)
          [] p = <<"a","n","t","h","r","o","p","i","c">> ->
                Probe("POST", URL_ANTHROPIC,
                      [h \in {"x-api-key", "anthropic-version"} \cup ct |->
                          IF h = "x-api-key" THEN k
                          ELSE IF h = "anthropic-version" THEN <<"2","0","2","3","-","0","6","-","0","1">>
                          ELSE <<"a","p","p","l","i","c","a","t","i","o","n","/","j","s","o","n">>],
                      <<[model |-> "claude-3-haiku-20240307", max_tokens |-> 1,
                         messages |-> <<[role |-> "user", content |-> "Hi"]>>]>>)
          [] p = <<"g","o","o","g","l","e">> ->
                Probe("GET", URL_GOOGLE \o k, [h \in {} |-> <<>>], <<>>)
          [] p = <<"f","i","n","a","n","c","i","a","l">> ->
                Probe("GET", URL_FINANCIAL, [h \in {"X-API-KEY"} |-> k], <<>>)

\* C7 (as claimed): the probe of every recognized provider has the method,
\* URL, headers and body of the table, and no header beyond those listed.
C7_ProbeAsTable ==
    \A c \in Calls :
        (wire[c] /= <<>> /\ submitted[c].provider \in SixProviders)
            => wire[c][1] = TableProbe(submitted[c].provider,
                                       submitted[c].apiKey, FALSE)

\* C7 (amended): the probe of every recognized provider has the method, URL
\* and body of the table and the headers listed there, plus
\* Content-Type: application/json for openai, anthropic, groq and deepseek.
C7_ProbeAsTableWithContentType ==
    \A c \in Calls :
        (wire[c] /= <<>> /\ submitted[c].provider \in SixProviders)
            => wire[c][1] = TableProbe(submitted[c].provider,
                                       submitted[c].apiKey, TRUE)

\* C7 witness: an openai probe is on the wire with its bearer header
C7_Witness ==
    \E c \in Calls :
        /\ submitted[c].provider = <<"o","p","e","n","a","i">>
        /\ Len(wire[c]) = 1
        /\ wire[c][1].method = "GET"
        /\ Contains(wire[c][1].headers["Authorization"], submitted[c].apiKey)

\* What a call with this request and this upstream outcome answers and
\* sends when it is the only call
AloneResult(request, o) ==
    LET d == Dispatch(request)
    IN  IF d.kind = "raise" THEN ExceptClauses(request, d.exc)
        ELSE IF o.kind = "raise"
             THEN ExceptClauses(request, Exc(o.cls, o.text, 0, <<>>))
             ELSE Classify(request, o.status, o.text)

AloneWire(request) ==
    LET d == Dispatch(request)
    IN  IF d.kind = "raise" THEN <<>> ELSE <<d.probe>>

\* C8: under any interleaving of concurrent calls, a call in flight still
\* holds its own request, and an ended call has sent and answered exactly
\* what it would have alone with the same upstream outcome.
C8_CallsIndependent ==
    \A c \in Calls :
        /\ pc[c] = "awaiting" =>
              /\ frame[Frame(c)].request = submitted[c]
              /\ frame[Frame(c)].client = "open"
        /\ Ended(c) =>
              /\ result[c] = AloneResult(submitted[c], outcome[c])
              /\ wire[c] = AloneWire(submitted[c])

\* C8 witness: two calls with different providers and keys, one answered
\* and one still waiting for its upstream
C8_Witness ==
    /\ pc[1] = "done" /\ pc[2] = "awaiting"
    /\ submitted[1].provider /= submitted[2].provider
    /\ submitted[1].apiKey /= submitted[2].apiKey
    /\ outcome[1].kind = "response"
    /\ result[1].http = 200

\* C9: two calls that agree on provider and apiKey and got the same upstream
\* outcome sent the same outbound requests and answered the same, whatever
\* their testEndpoint.
C9_TestEndpointIgnored ==
    \A c1, c2 \in Calls :
        (/\ pc[c1] = "done" /\ pc[c2] = "done"
         /\ submitted[c1].provider = submitted[c2].provider
         /\ submitted[c1].apiKey = submitted[c2].apiKey
         /\ outcome[c1] = outcome[c2])
            => /\ wire[c1] = wire[c2]
               /\ result[c1] = result[c2]

\* C9 witness: two such calls that differ in testEndpoint have both ended
\* after an outbound request
C9_Witness ==
    \E c1, c2 \in Calls :
        /\ pc[c1] = "done" /\ pc[c2] = "done"
        /\ submitted[c1].provider = submitted[c2].provider
        /\ submitted[c1].apiKey = submitted[c2].apiKey
        /\ submitted[c1].testEndpoint /= submitted[c2].testEndpoint
        /\ outcome[c1] = outcome[c2]
        /\ Len(wire[c1]) = 1

\* C10: however a call ends, its HTTP client is closed and nothing of it is
\* in flight; an aborted call has produced no result.
C10_ClientClosedAtEnd ==
    \A c \in Calls :
        /\ Ended(c) =>
              /\ frame[Frame(c)].client = "closed"
              /\ frame[Frame(c)].inflight = 0
        /\ pc[c] = "aborted" => result[c] = NoResult

\* C10 witness: a call aborted while its outbound call was in flight
C10_Witness ==
    \E c \in Calls :
        /\ pc[c] = "aborted"
        /\ Len(wire[c]) = 1
        /\ frame[Frame(c)].client = "closed"
====
